---- MODULE Spec2Model ----
(***************************************************************************)
(* Model of qiskit/extensions/quantum_initializer/_initializer.py:         *)
(* the gate tree kept in CompositeGate.data, the tree passes patched onto  *)
(* CompositeGate (reverse, remove_zero_rotations, remove_double_cnots_once,*)
(* optimize_gates) and InitializeGate's validation and tree synthesis.     *)
(*                                                                         *)
(* A gate is a record [kind, name, qargs, params, data]; kind is           *)
(* "CompositeGate" for a node that owns a child list (data) and "Gate"     *)
(* for a leaf.  Angles and the squared norm are integers in units of       *)
(* 1e-11, so that _EPS = 1e-10 is 10.                                      *)
(***************************************************************************)
EXTENDS Integers, Sequences, FiniteSets, TLC

VARIABLES data, prev, base, op, count, ret, err, req

vars == <<data, prev, base, op, count, ret, err, req>>

(***************************************************************************)
(* Bounds of the model.                                                    *)
(***************************************************************************)
\* largest number of nodes (leaves and Composites) below the root of a tree
MaxNodes == 4
\* largest number of qubits of an initialize request that is synthesized
MaxQubits == 3
\* largest number of consecutive calls of one method
MaxCalls == 2
\* angle lists up to this length take every combination of values
FullLen == 2

(***************************************************************************)
(* Program constants.                                                      *)
(***************************************************************************)
\* _EPS = 1e-10, in units of 1e-11
EPS == 10
\* the default rel_tol = 1e-09 of math.isclose, times the 1.0 it is compared
\* with, in units of 1e-11
REL_TOL == 100

(***************************************************************************)
(* Gates.                                                                  *)
(***************************************************************************)
Gate(name, qargs, params) ==
    [kind |-> "Gate", name |-> name, qargs |-> qargs, params |-> params,
     data |-> <<>>]

CompositeGate(name, children) ==
    [kind |-> "CompositeGate", name |-> name, qargs |-> <<>>,
     params |-> <<>>, data |-> children]

CnotGate(ctl, tgt) == Gate("cx", <<ctl, tgt>>, <<>>)

IsComposite(gate) == gate.kind = "CompositeGate"

\* the gate with its child list replaced (the list is mutated in place)
WithData(gate, children) == [gate EXCEPT !.data = children]

Abs(x) == IF x < 0 THEN -x ELSE x

Max(x, y) == IF x < y THEN y ELSE x

\* chop_num with the comparison "<=" in place of "<"
ChopNumInclusive(numb) == IF Abs(numb) <= EPS THEN 0 ELSE numb

\* InitializeGate.chop_num
ChopNum(numb) == IF Abs(numb) < EPS THEN 0 ELSE numb

\* the left-to-right leaf sequence of a child list
RECURSIVE Leaves(_)
Leaves(d) ==
    IF d = <<>> THEN <<>>
    ELSE (IF IsComposite(d[1]) THEN Leaves(d[1].data) ELSE <<d[1]>>)
         \o Leaves(Tail(d))

\* number_atomic_gates
RECURSIVE NumberAtomicGates(_)
NumberAtomicGates(d) ==
    IF d = <<>> THEN 0
    ELSE (IF IsComposite(d[1]) THEN NumberAtomicGates(d[1].data) ELSE 1)
         + NumberAtomicGates(Tail(d))

(***************************************************************************)
(* reverse                                                                 *)
(***************************************************************************)
\* a reverse that does not recurse into the Composites
ReverseTopLevel(d) == [j \in 1..Len(d) |-> d[Len(d) + 1 - j]]

RECURSIVE ReverseData(_)
ReverseData(d) ==
    [j \in 1..Len(d) |->
        LET gate == d[Len(d) + 1 - j] IN
        IF IsComposite(gate) THEN WithData(gate, ReverseData(gate.data))
        ELSE gate]

(***************************************************************************)
(* remove_zero_rotations: [data, removed]                                  *)
(***************************************************************************)
IsRotationName(name) == name = "rz" \/ name = "ry" \/ name = "rx"

\* the test of lines 324-327: the leaf is kept
KeepsLeaf(gate) ==
    \/ ~IsRotationName(gate.name)
    \/ ChopNum(gate.params[1]) # 0

RECURSIVE RemoveZeroRotationsData(_)
RemoveZeroRotationsData(d) ==
    IF d = <<>> THEN [data |-> <<>>, removed |-> FALSE]
    ELSE
        LET gate == d[1]
            rest == RemoveZeroRotationsData(Tail(d))
        IN  IF IsComposite(gate)
            THEN LET sub == RemoveZeroRotationsData(gate.data) IN
                 [data |-> (IF sub.data # <<>>
                            THEN <<WithData(gate, sub.data)>> ELSE <<>>)
                           \o rest.data,
                  removed |-> sub.removed \/ rest.removed]
            ELSE IF KeepsLeaf(gate)
                 THEN [data |-> <<gate>> \o rest.data, removed |-> rest.removed]
                 ELSE [data |-> rest.data, removed |-> TRUE]

(***************************************************************************)
(* first_atomic_gate_host / last_atomic_gate_host: the host list of the    *)
(* edge leaf, or None.  [some, list]                                       *)
(***************************************************************************)
None == [some |-> FALSE, list |-> <<>>]

Host(list) == [some |-> TRUE, list |-> list]

RECURSIVE FirstAtomicGateHost(_)
FirstAtomicGateHost(d) ==
    IF d # <<>>
    THEN IF IsComposite(d[1]) THEN FirstAtomicGateHost(d[1].data) ELSE Host(d)
    ELSE None

RECURSIVE LastAtomicGateHost(_)
LastAtomicGateHost(d) ==
    IF d # <<>>
    THEN IF IsComposite(d[Len(d)]) THEN LastAtomicGateHost(d[Len(d)].data)
         ELSE Host(d)
    ELSE None

\* del host[0] for the host first_atomic_gate_host found below d
RECURSIVE DelFirstAtomic(_)
DelFirstAtomic(d) ==
    IF IsComposite(d[1])
    THEN <<WithData(d[1], DelFirstAtomic(d[1].data))>> \o Tail(d)
    ELSE Tail(d)

\* del host[-1] for the host last_atomic_gate_host found below d
RECURSIVE DelLastAtomic(_)
DelLastAtomic(d) ==
    IF IsComposite(d[Len(d)])
    THEN SubSeq(d, 1, Len(d) - 1)
         \o <<WithData(d[Len(d)], DelLastAtomic(d[Len(d)].data))>>
    ELSE SubSeq(d, 1, Len(d) - 1)

\* del list[i]
DelAt(list, i) == SubSeq(list, 1, i - 1) \o SubSeq(list, i + 1, Len(list))

\* list[i] = gate
SetAt(list, i, gate) == [list EXCEPT ![i] = gate]

(***************************************************************************)
(* remove_double_cnots_once: [data, removed, err].  The list is mutated in *)
(* place: err is TRUE when an index is out of range (IndexError), and data *)
(* is then the list as the deletions made before the error left it.        *)
(***************************************************************************)
Pass(d, removed, raised) == [data |-> d, removed |-> removed, err |-> raised]

RECURSIVE RemoveDoubleCnotsOnceData(_), CnotStep(_, _), CnotLoop(_, _)

\* a comparison that leaves out the qargs
AnyCnot(left, right) == right.name = "cx"

\* lines 404-407: both resolved gates are cx on the same qargs
SamePair(left, right) ==
    /\ right.name = "cx"
    /\ left.qargs = right.qargs

\* the body of the loop of lines 381-410 for self.data[i] (i counted from 1)
CnotStep(s, i) ==
    IF i > Len(s.data) THEN Pass(s.data, s.removed, TRUE)
    ELSE
    LET gate == s.data[i]
        \* "double_cnot_removed or ...": no recursion once a pair was removed
        sub  == IF IsComposite(gate) /\ ~s.removed
                THEN RemoveDoubleCnotsOnceData(gate.data)
                ELSE Pass(gate.data, FALSE, FALSE)
        d1   == IF IsComposite(gate)
                THEN SetAt(s.data, i, WithData(gate, sub.data)) ELSE s.data
        removed1 == s.removed \/ sub.removed
    IN
    IF sub.err THEN Pass(d1, removed1, TRUE)
    ELSE
    LET left_gate_host  == IF IsComposite(gate)
                           THEN LastAtomicGateHost(d1[i].data) ELSE Host(d1)
        left_gate_index == IF IsComposite(gate)
                           THEN Len(left_gate_host.list) ELSE i
    IN
    IF ~(left_gate_host.some
         /\ left_gate_host.list[left_gate_index].name = "cx")
    THEN Pass(d1, removed1, FALSE)
    ELSE IF i + 1 > Len(d1) THEN Pass(d1, removed1, TRUE)
    ELSE
    LET right == d1[i + 1]
        right_gate_host  == IF IsComposite(right)
                            THEN FirstAtomicGateHost(right.data) ELSE Host(d1)
        right_gate_index == IF IsComposite(right) THEN 1 ELSE i + 1
    IN
    IF ~(right_gate_host.some
         /\ SamePair(left_gate_host.list[left_gate_index],
                     right_gate_host.list[right_gate_index]))
    THEN Pass(d1, removed1, FALSE)
    ELSE
    LET d2 == IF IsComposite(right)
              THEN SetAt(d1, i + 1, WithData(right, DelFirstAtomic(right.data)))
              ELSE DelAt(d1, i + 1)
        d3 == IF IsComposite(gate)
              THEN SetAt(d2, i, WithData(d2[i], DelLastAtomic(d2[i].data)))
              ELSE DelAt(d2, i)
    IN  Pass(d3, TRUE, FALSE)

\* for i in reversed(range(num_high_level_gates - 1))
CnotLoop(s, i) ==
    IF s.err \/ i = 0 THEN s ELSE CnotLoop(CnotStep(s, i), i - 1)

RemoveDoubleCnotsOnceData(d) ==
    LET num_high_level_gates == Len(d) IN
    IF num_high_level_gates = 0 THEN Pass(d, FALSE, FALSE)
    ELSE IF num_high_level_gates = 1 /\ IsComposite(d[1])
    THEN LET sub == RemoveDoubleCnotsOnceData(d[1].data) IN
         Pass(<<WithData(d[1], sub.data)>>, sub.removed, sub.err)
    ELSE
    LET last == d[num_high_level_gates]
        sub  == IF IsComposite(last)
                THEN RemoveDoubleCnotsOnceData(last.data)
                ELSE Pass(last.data, FALSE, FALSE)
        d0   == IF IsComposite(last)
                THEN SetAt(d, num_high_level_gates, WithData(last, sub.data))
                ELSE d
    IN  CnotLoop(Pass(d0, sub.removed, sub.err), num_high_level_gates - 1)

(***************************************************************************)
(* optimize_gates: [data, err]                                             *)
(***************************************************************************)
\* a single pass in place of the loop
CnotSinglePass(d) ==
    LET r == RemoveDoubleCnotsOnceData(d) IN [data |-> r.data, err |-> r.err]

\* while self.remove_double_cnots_once(): pass
RECURSIVE CnotFixpoint(_)
CnotFixpoint(d) ==
    LET r == RemoveDoubleCnotsOnceData(d) IN
    IF r.err THEN [data |-> r.data, err |-> TRUE]
    ELSE IF r.removed THEN CnotFixpoint(r.data)
    ELSE [data |-> r.data, err |-> FALSE]

OptimizeGatesData(d) == CnotFixpoint(RemoveZeroRotationsData(d).data)

(***************************************************************************)
(* The gate trees a CompositeGate can hold: strict trees of rotation       *)
(* leaves, CNOT leaves and Composites.                                     *)
(***************************************************************************)
RotationLeaves ==
    { Gate("ry", <<0>>, <<EPS - 1>>),
      Gate("rz", <<0>>, <<-EPS>>) }

CnotLeaves == { CnotGate(1, 0), CnotGate(2, 0) }

LeafGates == RotationLeaves \cup CnotLeaves

\* <<F0, ..., Fn>>, Fj the child lists with exactly j nodes: a list of j nodes
\* is a first node with k - 1 nodes below it and a list of the other j - k
\* t = <<F0, ..., Fn-1>> extended by Fn
MoreForests(t, n) ==
    Append(t,
        UNION { { <<first>> \o rest :
                    first \in (IF k = 1 THEN LeafGates ELSE {})
                              \cup { CompositeGate("multiplex", f) :
                                       f \in t[k] },
                    rest \in t[n - k + 1] } : k \in 1..n })

RECURSIVE Forests(_)
Forests(n) ==
    IF n = 0 THEN << {<<>>} >>
    ELSE CHOOSE more \in { MoreForests(t, n) : t \in {Forests(n - 1)} } : TRUE

\* the child lists with at most max_nodes nodes
GateTrees(max_nodes) ==
    LET t == Forests(max_nodes) IN UNION { t[n + 1] : n \in 0..max_nodes }

(***************************************************************************)
(* The calls on a CompositeGate holding an arbitrary gate tree.            *)
(***************************************************************************)
NoRequest == [len_params |-> 0, len_qargs |-> 0, norm_dev |-> 0,
              angles |-> <<>>]

Init ==
    /\ data \in GateTrees(MaxNodes)
    /\ prev = data
    /\ base = data
    /\ op = "new"
    /\ count = 0
    /\ ret = FALSE
    /\ err = "none"
    /\ req = NoRequest

\* bookkeeping of a call: what the tree was before it, and before the current
\* run of calls of the same method
Called(name) ==
    /\ err = "none"
    /\ (op = name) => count < MaxCalls
    /\ op' = name
    /\ prev' = data
    /\ base' = IF op = name THEN base ELSE data
    /\ count' = IF op = name THEN count + 1 ELSE 1
    /\ req' = req

Reverse ==
    /\ Called("reverse")
    /\ data' = ReverseData(data)
    /\ ret' = FALSE
    /\ err' = "none"

RemoveZeroRotations ==
    /\ Called("remove_zero_rotations")
    /\ LET r == RemoveZeroRotationsData(data) IN
        /\ data' = r.data
        /\ ret' = r.removed
    /\ err' = "none"

RemoveDoubleCnotsOnce ==
    /\ Called("remove_double_cnots_once")
    /\ LET r == RemoveDoubleCnotsOnceData(data) IN
        /\ data' = r.data
        /\ ret' = (~r.err /\ r.removed)
        /\ err' = IF r.err THEN "IndexError" ELSE "none"

OptimizeGates ==
    /\ Called("optimize_gates")
    /\ LET r == OptimizeGatesData(data) IN
        /\ data' = r.data
        /\ err' = IF r.err THEN "IndexError" ELSE "none"
    /\ ret' = FALSE

Next ==
    \/ Reverse
    \/ RemoveZeroRotations
    \/ RemoveDoubleCnotsOnce
    \/ OptimizeGates

Spec == Init /\ [][Next]_vars

(***************************************************************************)
(* InitializeGate                                                          *)
(***************************************************************************)
RECURSIVE Pow2(_)
Pow2(n) == IF n = 0 THEN 1 ELSE 2 * Pow2(n - 1)

IsPowerOfTwo(len) == \E n \in 0..len : Pow2(n) = len

\* math.log2 of a power of two
Log2(len) == CHOOSE n \in 0..len : Pow2(n) = len

\* math.isclose(sum(np.absolute(params) ** 2), 1.0, abs_tol=_EPS), for a sum
\* 1.0 + norm_dev: abs(a - b) <= max(rel_tol * max(abs(a), abs(b)), abs_tol)
IsClose(norm_dev) == Abs(norm_dev) <= Max(REL_TOL, EPS)

\* lines 52-68: the exception __init__ raises for the request, or "none"
Validate(r) ==
    IF r.len_params = 0 THEN "ValueError"
    ELSE IF r.len_params = 1 \/ ~IsPowerOfTwo(r.len_params)
    THEN "QiskitError: Desired vector not a positive power of 2."
    ELSE IF r.len_qargs # Log2(r.len_params)
    THEN "QiskitError: Number of complex amplitudes do not correspond to the number of qubits."
    ELSE IF ~IsClose(r.norm_dev)
    THEN "QiskitError: Sum of amplitudes-squared does not equal one."
    ELSE "none"

\* self.qargs: qubit j of the register, least significant first
QArgs(num_qubits) == [j \in 1..num_qubits |-> j - 1]

\* nth_qubit_from_least_sig_qubit
NthQubitFromLeastSigQubit(qargs, nth) == qargs[nth + 1]

\* angle_weight.dot(list_of_angles), angle_weight = kron([[.5, .5], [.5, -.5]], I)
AngleWeight(list_of_angles) ==
    LET half == Len(list_of_angles) \div 2 IN
    [j \in 1..Len(list_of_angles) |->
        IF j <= half
        THEN (list_of_angles[j] + list_of_angles[j + half]) \div 2
        ELSE (list_of_angles[j - half] - list_of_angles[j]) \div 2]

MultiplexName(local_num_qubits) ==
    CASE local_num_qubits = 2 -> "multiplex2"
      [] local_num_qubits = 3 -> "multiplex3"
      [] local_num_qubits = 4 -> "multiplex4"
      [] OTHER -> "multiplex5"

\* a multiplex that keeps the final CNOT at every level
KeepsFinalCnotAlways(num_qubits, local_num_qubits, bottom_qubit_index) == TRUE

\* line 255: the outer multiplex keeps the final CNOT
KeepsFinalCnot(num_qubits, local_num_qubits, bottom_qubit_index) ==
    num_qubits = local_num_qubits + bottom_qubit_index

\* lines 220-221: the offset of the control qubit
ControlOffset(local_num_qubits, bottom_qubit_index) ==
    local_num_qubits - 1 + bottom_qubit_index

RECURSIVE Multiplex(_, _, _, _)
Multiplex(num_qubits, bottom_gate, bottom_qubit_index, list_of_angles) ==
    LET list_len == Len(list_of_angles)
        qargs == QArgs(num_qubits)
        target_qubit == NthQubitFromLeastSigQubit(qargs, bottom_qubit_index)
    IN
    IF list_len = 1
    THEN Gate(bottom_gate, <<target_qubit>>, <<list_of_angles[1]>>)
    ELSE
    LET local_num_qubits == Log2(list_len) + 1
        control_qubit == NthQubitFromLeastSigQubit(
            qargs, ControlOffset(local_num_qubits, bottom_qubit_index))
        angles == AngleWeight(list_of_angles)
        first == Multiplex(num_qubits, bottom_gate, bottom_qubit_index,
                           SubSeq(angles, 1, list_len \div 2))
        sub_gate == Multiplex(num_qubits, bottom_gate, bottom_qubit_index,
                              SubSeq(angles, list_len \div 2 + 1, list_len))
        second == IF IsComposite(sub_gate)
                  THEN WithData(sub_gate, ReverseData(sub_gate.data))
                  ELSE sub_gate
    IN  CompositeGate(MultiplexName(local_num_qubits),
            <<first, CnotGate(control_qubit, target_qubit), second>>
            \o (IF KeepsFinalCnot(num_qubits, local_num_qubits,
                                  bottom_qubit_index)
                THEN <<CnotGate(control_qubit, target_qubit)>> ELSE <<>>))

\* gates_to_uncompute: angles[i + 1] holds the phis and thetas that
\* _rotations_to_disentangle derives from the remaining vector at level i
RECURSIVE GatesToUncompute(_, _, _)
GatesToUncompute(num_qubits, angles, i) ==
    IF i = num_qubits THEN <<>>
    ELSE <<Multiplex(num_qubits, "rz", i, angles[i + 1].phis),
           Multiplex(num_qubits, "ry", i, angles[i + 1].thetas)>>
         \o GatesToUncompute(num_qubits, angles, i + 1)

\* CompositeGate.inverse of the host: the child lists reversed and every gate
\* inverted (a rotation's angle negated, cx its own inverse)
RECURSIVE InverseData(_)
InverseData(d) ==
    [j \in 1..Len(d) |->
        LET gate == d[Len(d) + 1 - j] IN
        IF IsComposite(gate) THEN WithData(gate, InverseData(gate.data))
        ELSE IF IsRotationName(gate.name)
        THEN [gate EXCEPT !.params = <<-gate.params[1]>>]
        ELSE gate]

(***************************************************************************)
(* The angles of a request.  _bloch_angles gives theta = 2 arccos(..) in   *)
(* [0, pi] and phi = arg(b) - arg(a); _rotations_to_disentangle negates    *)
(* both, so a theta of a list is <= 0 and a phi has either sign.           *)
(***************************************************************************)
\* a non-zero angle that stays a multiple of _EPS through every halving
BigAngle == EPS * Pow2(MaxQubits)

PhiValues == {-BigAngle, 0, BigAngle}

ThetaValues == {-BigAngle, 0}

\* the lists of length len over values
ListsOver(len, values) == [1..len -> values]

\* lists longer than FullLen: all zero, constant, alternating, first half, one
PatternLists(len, v) ==
    { [j \in 1..len |-> 0],
      [j \in 1..len |-> v],
      [j \in 1..len |-> IF j % 2 = 1 THEN v ELSE 0],
      [j \in 1..len |-> IF j <= len \div 2 THEN v ELSE 0],
      [j \in 1..len |-> IF j = 1 THEN v ELSE 0] }

\* lists longer than 2 * FullLen: all zero, constant
ConstantLists(len, v) == { [j \in 1..len |-> 0], [j \in 1..len |-> v] }

AngleLists(len, values, v) ==
    IF len <= FullLen THEN ListsOver(len, values)
    ELSE IF len <= 2 * FullLen THEN PatternLists(len, v)
    ELSE ConstantLists(len, v)

LevelAngles(len) ==
    [phis : AngleLists(len, PhiValues, BigAngle),
     thetas : AngleLists(len, ThetaValues, -BigAngle)]

RECURSIVE RequestAngles(_, _)
RequestAngles(num_qubits, i) ==
    IF i = num_qubits THEN {<<>>}
    ELSE { <<level>> \o rest :
             level \in LevelAngles(Pow2(num_qubits - 1 - i)),
             rest \in RequestAngles(num_qubits, i + 1) }

\* the angles of a vector with one non-zero amplitude, the first
ZeroAngles(num_qubits) ==
    [i \in 1..num_qubits |->
        [phis |-> [j \in 1..Pow2(num_qubits - i) |-> 0],
         thetas |-> [j \in 1..Pow2(num_qubits - i) |-> 0]]]

NormDevs == {0, EPS, EPS + 1, REL_TOL, REL_TOL + 1, -(EPS + 1), -(REL_TOL + 1)}

\* the angle lists of a request: every list of the bounded sets for a
\* normalized vector that passes validation
AnglesOf(len, nq, dev) ==
    IF Validate([len_params |-> len, len_qargs |-> nq, norm_dev |-> dev])
       # "none"
    THEN {<<>>}
    ELSE IF dev = 0 THEN RequestAngles(nq, 0)
    ELSE {ZeroAngles(nq)}

(***************************************************************************)
(* initialize on a circuit with an empty gate list.  prev is the tree as    *)
(* gates_to_uncompute left it, base the tree after optimize_gates, and data *)
(* the gate list of the circuit.                                            *)
(***************************************************************************)
InitSynth ==
    /\ \E len \in 0..(Pow2(MaxQubits) + 1), nq \in 0..(MaxQubits + 1),
          dev \in NormDevs :
          \E a \in AnglesOf(len, nq, dev) :
             req = [len_params |-> len, len_qargs |-> nq, norm_dev |-> dev,
                    angles |-> a]
    /\ data = <<>>
    /\ prev = <<>>
    /\ base = <<>>
    /\ op = "new"
    /\ count = 0
    /\ ret = FALSE
    /\ err = "none"

Initialize ==
    /\ op = "new"
    /\ op' = "initialize"
    /\ count' = 1
    /\ ret' = FALSE
    /\ req' = req
    /\ LET raised == Validate(req) IN
       IF raised # "none"
       THEN /\ err' = raised
            /\ UNCHANGED <<data, prev, base>>
       ELSE LET uncompute == GatesToUncompute(req.len_qargs, req.angles, 0)
                optimized == OptimizeGatesData(uncompute)
            IN  /\ prev' = uncompute
                /\ base' = optimized.data
                /\ err' = IF optimized.err THEN "IndexError" ELSE "none"
                /\ data' = IF optimized.err THEN data
                           ELSE Append(data,
                                       CompositeGate("init",
                                           InverseData(optimized.data)))

NextSynth == Initialize

SpecSynth == InitSynth /\ [][NextSynth]_vars

(***************************************************************************)
(* Properties.                                                             *)
(***************************************************************************)
\* two gates that are both cx on the identical (control, target) pair
DoubleCnot(left, right) ==
    /\ left.name = "cx"
    /\ right.name = "cx"
    /\ left.qargs = right.qargs

\* no two consecutive gates of a leaf sequence are a double cnot
NoDoubleCnot(leaves) ==
    \A j \in 1..(Len(leaves) - 1) : ~DoubleCnot(leaves[j], leaves[j + 1])

\* the last leaf below a gate, as a sequence of length 0 or 1
LastLeaf(gate) ==
    IF IsComposite(gate)
    THEN LET below == Leaves(gate.data) IN
         IF below = <<>> THEN <<>> ELSE <<below[Len(below)]>>
    ELSE <<gate>>

\* the first leaf below a gate, as a sequence of length 0 or 1
FirstLeaf(gate) ==
    IF IsComposite(gate)
    THEN LET below == Leaves(gate.data) IN
         IF below = <<>> THEN <<>> ELSE <<below[1]>>
    ELSE <<gate>>

\* in no child list are the last leaf of a child and the first leaf of the
\* next child a double cnot
RECURSIVE NoDoubleCnotAcross(_)
NoDoubleCnotAcross(d) ==
    /\ \A j \in 1..(Len(d) - 1) :
          NoDoubleCnot(LastLeaf(d[j]) \o FirstLeaf(d[j + 1]))
    /\ \A j \in 1..Len(d) :
          IsComposite(d[j]) => NoDoubleCnotAcross(d[j].data)

\* number of Composites below a child list
RECURSIVE NumberComposites(_)
NumberComposites(d) ==
    IF d = <<>> THEN 0
    ELSE (IF IsComposite(d[1]) THEN 1 + NumberComposites(d[1].data) ELSE 0)
         + NumberComposites(Tail(d))

\* no Composite below a child list is childless
RECURSIVE NoChildlessComposite(_)
NoChildlessComposite(d) ==
    \A j \in 1..Len(d) :
        IsComposite(d[j]) =>
            /\ d[j].data # <<>>
            /\ NoChildlessComposite(d[j].data)

\* every Composite of a child list, and below it, has exactly three children
RECURSIVE AllHaveThree(_)
AllHaveThree(d) ==
    \A j \in 1..Len(d) :
        IsComposite(d[j]) =>
            /\ Len(d[j].data) = 3
            /\ AllHaveThree(d[j].data)

\* a rotation gate whose angle has magnitude below 1e-10
IsZeroRotation(gate) ==
    /\ gate.name \in {"rz", "ry", "rx"}
    /\ -EPS < gate.params[1]
    /\ gate.params[1] < EPS

NotZeroRotation(gate) == ~IsZeroRotation(gate)

\* t is s with the order of the children reversed at every level and every
\* leaf unchanged
RECURSIVE Mirrored(_, _)
Mirrored(s, t) ==
    /\ Len(s) = Len(t)
    /\ \A j \in 1..Len(s) :
          LET x == s[j]
              y == t[Len(s) + 1 - j]
          IN  IF IsComposite(x)
              THEN /\ IsComposite(y)
                   /\ y.name = x.name
                   /\ Mirrored(x.data, y.data)
              ELSE y = x

\* t is s after deleting, any number of times, two consecutive gates that
\* are a double cnot
RECURSIVE PairsDeleted(_, _)
PairsDeleted(s, t) ==
    \/ s = t
    \/ /\ Len(t) + 2 <= Len(s)
       /\ \E j \in 1..(Len(s) - 1) :
             /\ DoubleCnot(s[j], s[j + 1])
             /\ PairsDeleted(SubSeq(s, 1, j - 1) \o SubSeq(s, j + 2, Len(s)), t)

\* t is a subsequence of s
RECURSIVE IsSubsequence(_, _)
IsSubsequence(t, s) ==
    IF t = <<>> THEN TRUE
    ELSE IF s = <<>> THEN FALSE
    ELSE IF t[1] = s[1] THEN IsSubsequence(Tail(t), Tail(s))
    ELSE IsSubsequence(t, Tail(s))

----------------------------------------------------------------------------
\* C2 (as stated): a request whose params length is not a power of two >= 2
\* (0, 1, 3, ...) raises the shape QiskitError; otherwise one whose qargs
\* count is not log2 of the length raises the cardinality QiskitError;
\* otherwise one whose squared norm differs from 1 by more than 1e-10 raises
\* the normalization QiskitError; and in all three cases the gate list of the
\* circuit is unchanged.
C2_ValidationErrors ==
    op = "initialize" =>
        LET shape == req.len_params < 2 \/ ~IsPowerOfTwo(req.len_params)
            cardinality == ~shape /\ req.len_qargs # Log2(req.len_params)
            normalization == /\ ~shape
                             /\ ~cardinality
                             /\ Abs(req.norm_dev) > EPS
        IN  /\ shape =>
                /\ err = "QiskitError: Desired vector not a positive power of 2."
                /\ data = <<>>
            /\ cardinality =>
                /\ err = "QiskitError: Number of complex amplitudes do not correspond to the number of qubits."
                /\ data = <<>>
            /\ normalization =>
                /\ err = "QiskitError: Sum of amplitudes-squared does not equal one."
                /\ data = <<>>

\* C3: in the tree initialize builds with gates_to_uncompute, once
\* optimize_gates has run to its fixpoint, no two leaves that are neighbours
\* in a child list or across a Composite boundary (nor any two leaves that
\* are consecutive in the leaf order) are CNOTs on the identical pair.
C3_NoDoubleCnotAfterOptimize ==
    (op = "initialize" /\ Validate(req) = "none") =>
        /\ err = "none"
        /\ NoDoubleCnotAcross(base)
        /\ NoDoubleCnot(Leaves(base))

\* C3 witness: a three-qubit request whose zero angles left double cnots that
\* the fixpoint loop cancelled
C3_Witness ==
    /\ op = "initialize"
    /\ err = "none"
    /\ req.len_qargs = 3
    /\ ~NoDoubleCnot(Leaves(RemoveZeroRotationsData(prev).data))
    /\ NumberAtomicGates(base) + 2
          <= NumberAtomicGates(RemoveZeroRotationsData(prev).data)
    /\ \E j \in 1..Len(base) : IsComposite(base[j]) /\ base[j].data # <<>>

\* C4: remove_zero_rotations deletes exactly the rotation leaves (rz, ry, rx)
\* whose angle has magnitude below 1e-10: the other leaves remain, in order;
\* no childless Composite remains below the root; and the call returns True
\* exactly when a leaf was deleted.
C4_ZeroRotationsRemoved ==
    op = "remove_zero_rotations" =>
        /\ Leaves(data) = SelectSeq(Leaves(prev), NotZeroRotation)
        /\ NoChildlessComposite(data)
        /\ ret = (NumberAtomicGates(data) < NumberAtomicGates(prev))

\* C4 witness: a call that deleted a rotation, dropped a Composite it left
\* childless, and kept a CNOT and a rotation of magnitude 1e-10
C4_Witness ==
    /\ op = "remove_zero_rotations"
    /\ ret
    /\ NumberComposites(data) < NumberComposites(prev)
    /\ \E j \in 1..Len(Leaves(data)) : Leaves(data)[j].name = "cx"
    /\ \E j \in 1..Len(Leaves(data)) :
          /\ Leaves(data)[j].name = "rz"
          /\ Abs(Leaves(data)[j].params[1]) = EPS

\* C5 (as stated): a second optimize_gates leaves the tree as the first one
\* left it (same nesting, same leaves, same order).
C5_OptimizeIdempotent ==
    (op = "optimize_gates" /\ count = 2 /\ err = "none") => data = prev

\* C6 (as stated): neither remove_zero_rotations nor remove_double_cnots_once
\* raises: every list index of a pass is within the bounds of the list.
C6_NeverRaises == err # "IndexError"

\* C7: reverse reverses the order of the children at every level and leaves
\* every leaf unchanged, and two calls give the tree back.
C7_ReverseInvolution ==
    op = "reverse" =>
        /\ Mirrored(prev, data)
        /\ Leaves(data) = [j \in 1..Len(Leaves(prev)) |->
                              Leaves(prev)[Len(Leaves(prev)) + 1 - j]]
        /\ count % 2 = 0 => data = base
        /\ count % 2 = 1 => Mirrored(base, data)

\* C7 witness: a second reverse of a tree that holds a Composite with two
\* different children, so that the first reverse changed it below the root
C7_Witness ==
    /\ op = "reverse"
    /\ count = 2
    /\ data # prev
    /\ \E j \in 1..Len(data) :
          /\ IsComposite(data[j])
          /\ Len(data[j].data) >= 2
          /\ data[j].data[1] # data[j].data[Len(data[j].data)]
          /\ prev[Len(data) + 1 - j].data # data[j].data

\* the structure C8 gives the gate _multiplex returns for an angle list of
\* length list_len = 2^k and bottom index b in a gate of n qubits, with the
\* control at offset k - 1 + shift + b and the trailing CNOT present exactly
\* when n = k + shift + b
RECURSIVE MultiplexShape(_, _, _, _, _, _)
MultiplexShape(gate, bottom_gate, n, list_len, b, shift) ==
    IF list_len = 1
    THEN /\ ~IsComposite(gate)
         /\ gate.name = bottom_gate
         /\ gate.qargs = <<b>>
    ELSE LET k == Log2(list_len)
             control == k - 1 + shift + b
             trailing == (n = k + shift + b)
             children == gate.data
         IN  /\ IsComposite(gate)
             /\ control \in 0..(n - 1)
             /\ Len(children) = IF trailing THEN 4 ELSE 3
             /\ MultiplexShape(children[1], bottom_gate, n, list_len \div 2,
                               b, shift)
             /\ children[2] = CnotGate(control, b)
             /\ MultiplexShape(
                    IF IsComposite(children[3])
                    THEN WithData(children[3], ReverseData(children[3].data))
                    ELSE children[3],
                    bottom_gate, n, list_len \div 2, b, shift)
             /\ trailing => children[4] = CnotGate(control, b)

\* every gate gates_to_uncompute attached has the structure, for the shift
UncomputeShape(shift) ==
    LET n == req.len_qargs IN
    /\ Len(prev) = 2 * n
    /\ \A i \in 0..(n - 1) :
          /\ MultiplexShape(prev[2 * i + 1], "rz", n, Pow2(n - 1 - i), i, shift)
          /\ MultiplexShape(prev[2 * i + 2], "ry", n, Pow2(n - 1 - i), i, shift)

\* C8 (as stated): for an angle list of length 2^k and bottom index b the
\* control is the qubit at offset k - 1 + b, and the trailing CNOT is present
\* if and only if n = k + b.
C8_MultiplexAsStated ==
    (op = "initialize" /\ err = "none") => UncomputeShape(0)

\* C8 (amended): for an angle list of length 2^k (k >= 1) and bottom index b
\* in a gate of n qubits, the control is the qubit at offset k + b and the
\* target the qubit at offset b; the Composite is the subtree of the first
\* half, CNOT(control, target), the order-reversed subtree of the second half,
\* and one trailing CNOT(control, target) if and only if n = k + 1 + b.  So in
\* the tree of gates_to_uncompute exactly the Composites attached at the top
\* level carry the trailing CNOT, and every nested Composite has exactly three
\* children.
C8_MultiplexStructure ==
    (op = "initialize" /\ err = "none") =>
        /\ UncomputeShape(1)
        /\ \A j \in 1..Len(prev) :
              IsComposite(prev[j]) =>
                  /\ Len(prev[j].data) = 4
                  /\ prev[j].data[4] = prev[j].data[2]
                  /\ prev[j].data[4].name = "cx"
                  /\ AllHaveThree(prev[j].data)

\* C8 witness: a three-qubit request, whose first level multiplexes four
\* angles (a top-level Composite of four children over nested Composites of
\* three) and whose second level multiplexes two
C8_Witness ==
    /\ op = "initialize"
    /\ err = "none"
    /\ req.len_qargs = 3
    /\ Len(prev[1].data) = 4
    /\ IsComposite(prev[1].data[1])
    /\ Len(prev[1].data[1].data) = 3
    /\ IsComposite(prev[3])
    /\ prev[3].data[2] = CnotGate(2, 1)

\* C9 (as stated): when a pass of remove_double_cnots_once returns False (the
\* loop has reached its fixpoint), no two leaves consecutive in the leaf
\* order of the tree are CNOTs on the identical pair.
C9_FixpointHasNoDoubleCnot ==
    (op = "remove_double_cnots_once" /\ err = "none" /\ ~ret) =>
        NoDoubleCnot(Leaves(data))

\* C10: a pass of remove_double_cnots_once only deletes pairs of leaves that
\* are, when deleted, consecutive CNOTs on the identical pair: the leaves
\* left are a subsequence of the leaves before the pass and of the leaves
\* before the first pass, an even number of leaves is gone, and at least two
\* when the pass returns True.
C10_OnlyDoubleCnotsDeleted ==
    op = "remove_double_cnots_once" =>
        /\ PairsDeleted(Leaves(prev), Leaves(data))
        /\ PairsDeleted(Leaves(base), Leaves(data))
        /\ IsSubsequence(Leaves(data), Leaves(base))
        /\ (NumberAtomicGates(base) - NumberAtomicGates(data)) % 2 = 0
        /\ ret => NumberAtomicGates(data) + 2 <= NumberAtomicGates(prev)
        /\ NumberComposites(data) = NumberComposites(prev)

\* C10 witness: a pass that returned True after deleting one pair, one gate
\* of it hosted by the root list and the other by a Composite, with another
\* leaf left in place
C10_Witness ==
    /\ op = "remove_double_cnots_once"
    /\ ret
    /\ NumberAtomicGates(data) + 2 = NumberAtomicGates(prev)
    /\ Len(data) + 1 = Len(prev)
    /\ Leaves(data) # <<>>

====
